---- MODULE Spec2Model ----
(***************************************************************************)
(* A model of the SEC filing scraper: the per-filing extraction            *)
(* orchestrator of parser.py (process_single_filing and what it calls),    *)
(* and the batch driver of main.py (scrape_sec_filings).                   *)
(*                                                                         *)
(* Text is modelled as sequences of one-character strings, so that the     *)
(* regular expressions and string conversions of the code are computed,    *)
(* not assumed.  Floats are modelled as integers in hundredths.            *)
(***************************************************************************)
EXTENDS Integers, Sequences, FiniteSets, TLC

(***************************************************************************)
(* Bounds of the model.                                                    *)
(***************************************************************************)
\* the most tables a document has
MaxTables == 3
\* the most filings a batch has
MaxFilings == 2

(***************************************************************************)
(* Generic sequence helpers.                                               *)
(***************************************************************************)
Last(s) == s[Len(s)]

RECURSIVE Concat(_)
Concat(ss) == IF ss = <<>> THEN <<>> ELSE Head(ss) \o Concat(Tail(ss))

RECURSIVE JoinSp(_)
JoinSp(ss) ==
    IF ss = <<>> THEN <<>>
    ELSE IF Len(ss) = 1 THEN Head(ss)
    ELSE Head(ss) \o <<" ">> \o JoinSp(Tail(ss))

RECURSIVE Filter(_, _)
Filter(s, keep) ==
    IF s = <<>> THEN <<>>
    ELSE (IF Head(s) \in keep THEN <<Head(s)>> ELSE <<>>) \o Filter(Tail(s), keep)

RECURSIVE Remove(_, _)
Remove(s, drop) ==
    IF s = <<>> THEN <<>>
    ELSE (IF Head(s) \in drop THEN <<>> ELSE <<Head(s)>>) \o Remove(Tail(s), drop)

RECURSIVE LStrip(_)
LStrip(s) == IF s # <<>> /\ Head(s) = " " THEN LStrip(Tail(s)) ELSE s

RECURSIVE RStrip(_)
RStrip(s) ==
    IF s # <<>> /\ Last(s) = " " THEN RStrip(SubSeq(s, 1, Len(s) - 1)) ELSE s

Strip(s) == LStrip(RStrip(s))

Contains(s, c) == \E i \in 1..Len(s) : s[i] = c

(***************************************************************************)
(* Character classes of the regular expressions.                           *)
(***************************************************************************)
Digits == {"0", "1", "2", "3", "4", "5", "6", "7", "8", "9"}

Letters == {"a", "b", "c", "d", "e", "f", "g", "h", "i", "j", "k", "l", "m",
            "n", "o", "p", "q", "r", "s", "t", "u", "v", "w", "x", "y", "z",
            "A", "B", "C", "D", "E", "F", "G", "H", "I", "J", "K", "L", "M",
            "N", "O", "P", "Q", "R", "S", "T", "U", "V", "W", "X", "Y", "Z"}

\* \w of the re module
WordChars == Digits \cup Letters \cup {"_"}

\* [\d,.-] of the value pattern
NumChars == Digits \cup {",", ".", "-"}

DigitVal(c) ==
    CASE c = "0" -> 0 [] c = "1" -> 1 [] c = "2" -> 2 [] c = "3" -> 3
      [] c = "4" -> 4 [] c = "5" -> 5 [] c = "6" -> 6 [] c = "7" -> 7
      [] c = "8" -> 8 [] c = "9" -> 9

RECURSIVE DigitsVal(_)
DigitsVal(s) ==
    IF s = <<>> THEN 0 ELSE DigitsVal(SubSeq(s, 1, Len(s) - 1)) * 10 + DigitVal(Last(s))

AllDigits(s) == \A i \in 1..Len(s) : s[i] \in Digits

\* str.isdigit(): non-empty and every character a digit
IsDigit(s) == s # <<>> /\ AllDigits(s)

(***************************************************************************)
(* float(): the value of a decimal literal, or None.  A float is modelled  *)
(* as an integer in hundredths; a result is <<v>> for the value v and <<>>  *)
(* for None.  Only plain decimal literals are in the vocabulary of the     *)
(* model (no exponent, inf, nan or underscore), with at most two           *)
(* fractional digits.                                                      *)
(***************************************************************************)
None == <<>>

Some(v) == <<v>>

\* the one character U+2014 (em dash)
EmDash == "EMDASH"

DotPos(s) ==
    IF Contains(s, ".")
    THEN CHOOSE i \in 1..Len(s) : s[i] = "." /\ \A j \in 1..(i - 1) : s[j] # "."
    ELSE 0

Hundredths(frac) ==
    IF frac = <<>> THEN 0
    ELSE IF Len(frac) = 1 THEN DigitVal(frac[1]) * 10
    ELSE DigitVal(frac[1]) * 10 + DigitVal(frac[2])

UnsignedFloat(s) ==
    LET d == DotPos(s)
        ip == IF d = 0 THEN s ELSE SubSeq(s, 1, d - 1)
        fp == IF d = 0 THEN <<>> ELSE SubSeq(s, d + 1, Len(s))
    IN  IF AllDigits(ip) /\ AllDigits(fp) /\ Len(ip) + Len(fp) > 0
        THEN Some(DigitsVal(ip) * 100 + Hundredths(fp))
        ELSE None

Float(str) ==
    LET s == Strip(str)
    IN  IF s = <<>> THEN None
        ELSE IF Head(s) \in {"-", "+"}
             THEN LET u == UnsignedFloat(Tail(s))
                  IN  IF u = None THEN None
                      ELSE IF Head(s) = "-" THEN Some(0 - u[1]) ELSE u
             ELSE UnsignedFloat(s)

(***************************************************************************)
(* parse_financial_value (parser.py 17-34).                                *)
(***************************************************************************)
parse_financial_value(value_str) ==
    IF value_str = <<>> THEN None
    ELSE LET cleaned_str == Remove(Strip(value_str), {"$", ","})
         IN  IF cleaned_str \in {<<EmDash>>, <<"-">>} THEN Some(0)
             ELSE IF cleaned_str = <<>> THEN None
             ELSE LET is_negative == Head(cleaned_str) = "(" /\ Last(cleaned_str) = ")"
                  IN  IF is_negative
                      THEN Float(<<"-">> \o Filter(cleaned_str, Digits \cup {"."}))
                      ELSE Float(cleaned_str)

(***************************************************************************)
(* The two regular expressions of the table code, as scanners.             *)
(*                                                                         *)
(* FindValues is re.findall(r'(\([\d,.-]+\)|EMDASH|[\d,.-]+)', text)       *)
(* (parser.py 119): at each position the alternatives are tried in order,  *)
(* and the scan resumes after a match.                                     *)
(***************************************************************************)
RECURSIVE RunEnd(_, _, _)
\* the last position of the maximal run of characters of cls starting at i
\* (i - 1 when s[i] is not in cls)
RunEnd(s, i, cls) ==
    IF i <= Len(s) /\ s[i] \in cls THEN RunEnd(s, i + 1, cls) ELSE i - 1

RECURSIVE FindValuesFrom(_, _)
FindValuesFrom(s, i) ==
    IF i > Len(s) THEN <<>>
    ELSE LET j == RunEnd(s, i + 1, NumChars)
             k == RunEnd(s, i, NumChars)
         IN  IF s[i] = "(" /\ j >= i + 1 /\ j + 1 <= Len(s) /\ s[j + 1] = ")"
             THEN <<SubSeq(s, i, j + 1)>> \o FindValuesFrom(s, j + 2)
             ELSE IF s[i] = EmDash
             THEN <<(<<EmDash>>)>> \o FindValuesFrom(s, i + 1)
             ELSE IF k >= i
             THEN <<SubSeq(s, i, k)>> \o FindValuesFrom(s, k + 1)
             ELSE FindValuesFrom(s, i + 1)

FindValues(s) == FindValuesFrom(s, 1)

(***************************************************************************)
(* date_pattern (parser.py 62), IGNORECASE:                                *)
(*   \b((?:Jan|...|Dec)[a-z]*\.?\s+\d{1,2},\s+20\d{2})\b|\b(20\d{2})\b     *)
(* FindYears is the list built at parser.py 66-77: for each match, the     *)
(* year of the full date or the bare year, as a number.                    *)
(***************************************************************************)
Lower(c) ==
    CASE c = "A" -> "a" [] c = "B" -> "b" [] c = "C" -> "c" [] c = "D" -> "d"
      [] c = "E" -> "e" [] c = "F" -> "f" [] c = "G" -> "g" [] c = "H" -> "h"
      [] c = "I" -> "i" [] c = "J" -> "j" [] c = "K" -> "k" [] c = "L" -> "l"
      [] c = "M" -> "m" [] c = "N" -> "n" [] c = "O" -> "o" [] c = "P" -> "p"
      [] c = "Q" -> "q" [] c = "R" -> "r" [] c = "S" -> "s" [] c = "T" -> "t"
      [] c = "U" -> "u" [] c = "V" -> "v" [] c = "W" -> "w" [] c = "X" -> "x"
      [] c = "Y" -> "y" [] c = "Z" -> "z" [] OTHER -> c

Months == {<<"j", "a", "n">>, <<"f", "e", "b">>, <<"m", "a", "r">>, <<"a", "p", "r">>,
           <<"m", "a", "y">>, <<"j", "u", "n">>, <<"j", "u", "l">>, <<"a", "u", "g">>,
           <<"s", "e", "p">>, <<"o", "c", "t">>, <<"n", "o", "v">>, <<"d", "e", "c">>}

\* \b at position i: exactly one of s[i-1], s[i] is a word character
Boundary(s, i) ==
    LET before == i > 1 /\ i - 1 <= Len(s) /\ s[i - 1] \in WordChars
        after == i >= 1 /\ i <= Len(s) /\ s[i] \in WordChars
    IN  before # after

\* 20\d{2} at position i
YearAt(s, i) ==
    i + 3 <= Len(s) /\ s[i] = "2" /\ s[i + 1] = "0"
        /\ s[i + 2] \in Digits /\ s[i + 3] \in Digits

\* the end of a full date starting at i, or 0
FullDateEnd(s, i) ==
    IF ~(Boundary(s, i) /\ i + 2 <= Len(s)
            /\ <<Lower(s[i]), Lower(s[i + 1]), Lower(s[i + 2])>> \in Months)
    THEN 0
    ELSE LET l == RunEnd(s, i + 3, Letters)
             d == IF l + 1 <= Len(s) /\ s[l + 1] = "." THEN l + 1 ELSE l
             w == RunEnd(s, d + 1, {" "})
             n == RunEnd(s, w + 1, Digits)
             c == n + 1
             v == RunEnd(s, c + 1, {" "})
         IN  IF w > d /\ n - w \in {1, 2} /\ c <= Len(s) /\ s[c] = ","
                /\ v > c /\ YearAt(s, v + 1) /\ Boundary(s, v + 5)
             THEN v + 4
             ELSE 0

RECURSIVE FindYearsFrom(_, _)
FindYearsFrom(s, i) ==
    IF i > Len(s) THEN <<>>
    ELSE LET e == FullDateEnd(s, i)
         IN  IF e > 0
             THEN <<DigitsVal(SubSeq(s, e - 3, e))>> \o FindYearsFrom(s, e + 1)
             ELSE IF Boundary(s, i) /\ YearAt(s, i) /\ Boundary(s, i + 4)
             THEN <<DigitsVal(SubSeq(s, i, i + 3))>> \o FindYearsFrom(s, i + 4)
             ELSE FindYearsFrom(s, i + 1)

FindYears(s) == FindYearsFrom(s, 1)

(***************************************************************************)
(* Tables.  A table is a record                                            *)
(*   rows      : its <tr> rows in order, each the sequence of the texts of *)
(*               its <td>/<th> cells (get_text(" ", strip=True) per cell), *)
(*   hits      : for each statement type, the number of that type's terms  *)
(*               that occur in the table's lower-cased text (parser.py     *)
(*               308; the term lists are data outside the source tree),    *)
(*   heading   : whether the table is the first one after a centred        *)
(*               "TABLE OF CONTENTS" / "INDEX TO FINANCIAL STATEMENTS"     *)
(*               heading (parser.py 158-162),                              *)
(*   link_rows : how many of its first 20 rows hold an internal link       *)
(*               (parser.py 175),                                          *)
(*   index     : the anchors of the entries parse_toc_table_to_index       *)
(*               builds from it (rows with a link whose anchor resolves    *)
(*               and whose description is not empty); an anchor is the     *)
(*               number of tables that precede it in the document.         *)
(* Tables are not nested, and every table and anchor is a child of the     *)
(* document body.  Entries of one index have distinct descriptions.        *)
(***************************************************************************)
\* terms_dict.keys(), in the order of the terms file (main.py 119-120,
\* llm_analyzer.py 130-132)
required_statements == <<"INCOME_STATEMENT", "BALANCE_SHEET_STATEMENT", "CASH_FLOW_STATEMENT">>

StatementTypes == {required_statements[i] : i \in 1..Len(required_statements)}

\* s_type.replace('_', ' ').title()  (parser.py 264, 326)
TableDescription(s_type) ==
    CASE s_type = "INCOME_STATEMENT" -> "Income Statement"
      [] s_type = "BALANCE_SHEET_STATEMENT" -> "Balance Sheet Statement"
      [] s_type = "CASH_FLOW_STATEMENT" -> "Cash Flow Statement"

\* row.get_text(" ", strip=True): the non-empty cell texts joined by a space
RECURSIVE NonEmpty(_)
NonEmpty(ss) ==
    IF ss = <<>> THEN <<>>
    ELSE (IF Head(ss) = <<>> THEN <<>> ELSE <<Head(ss)>>) \o NonEmpty(Tail(ss))

RowText(row) == JoinSp(NonEmpty(row))

RECURSIVE RowTexts(_)
RowTexts(rows) == IF rows = <<>> THEN <<>> ELSE <<RowText(Head(rows))>> \o RowTexts(Tail(rows))

TableText(table) == JoinSp(NonEmpty(RowTexts(table.rows)))

\* sorted(xs, reverse=True): a stable descending insertion sort
RECURSIVE InsertDesc(_, _)
InsertDesc(x, s) ==
    IF s = <<>> THEN <<x>>
    ELSE IF x > Head(s) THEN <<x>> \o s
    ELSE <<Head(s)>> \o InsertDesc(x, Tail(s))

RECURSIVE SortedDesc(_)
SortedDesc(s) ==
    IF s = <<>> THEN <<>>
    ELSE InsertDesc(s[Len(s)], SortedDesc(SubSeq(s, 1, Len(s) - 1)))

\* table.find_all('tr', limit=10)  (parser.py 61)
HeaderRowLimit == 10

(***************************************************************************)
(* parse_table_headers (parser.py 55-85): the years of the first of the    *)
(* leading rows that has any, sorted descending.                           *)
(***************************************************************************)
RECURSIVE FirstYears(_)
FirstYears(header_rows) ==
    IF header_rows = <<>> THEN <<>>
    ELSE LET years_found == FindYears(RowText(Head(header_rows)))
         IN  IF years_found # <<>> THEN SortedDesc(years_found)
             ELSE FirstYears(Tail(header_rows))

parse_table_headers(table) ==
    FirstYears(SubSeq(table.rows, 1,
                      IF Len(table.rows) < HeaderRowLimit THEN Len(table.rows) ELSE HeaderRowLimit))

(***************************************************************************)
(* scrape_data_from_tables (parser.py 88-143).  A DataPoint keeps the      *)
(* fields that depend on the table and the statement; symbol, form_type,   *)
(* date_filed, period_end_date, units and href are constant per filing or  *)
(* per table and are left out.                                             *)
(***************************************************************************)
\* a variant that reads the periods from the last to the first
RECURSIVE RowPointsReversed(_, _, _, _, _, _, _)
RowPointsReversed(i, fiscal_periods, value_strings, metric_name, current_category, context, number) ==
    IF i > Len(fiscal_periods) THEN <<>>
    ELSE LET value == IF i <= Len(value_strings)
                      THEN parse_financial_value(value_strings[i]) ELSE None
         IN  (IF value # None
              THEN << [table_description |-> context,
                       metric |-> metric_name,
                       value |-> value[1],
                       fiscal_period |-> fiscal_periods[Len(fiscal_periods) - i + 1],
                       category |-> current_category,
                       table_number |-> number] >>
              ELSE <<>>)
             \o RowPointsReversed(i + 1, fiscal_periods, value_strings, metric_name,
                                  current_category, context, number)

\* parser.py 128-141: one DataPoint per period whose token parses
RECURSIVE RowPoints(_, _, _, _, _, _, _)
RowPoints(i, fiscal_periods, value_strings, metric_name, current_category, context, number) ==
    IF i > Len(fiscal_periods) THEN <<>>
    ELSE LET value == IF i <= Len(value_strings)
                      THEN parse_financial_value(value_strings[i]) ELSE None
         IN  (IF value # None
              THEN << [table_description |-> context,
                       metric |-> metric_name,
                       value |-> value[1],
                       fiscal_period |-> fiscal_periods[i],
                       category |-> current_category,
                       table_number |-> number] >>
              ELSE <<>>)
             \o RowPoints(i + 1, fiscal_periods, value_strings, metric_name,
                          current_category, context, number)

\* parser.py 108-143: the rows of one table, from row r on
RECURSIVE ScrapeRows(_, _, _, _, _, _)
ScrapeRows(rows, r, fiscal_periods, current_category, context, number) ==
    IF r > Len(rows) THEN <<>>
    ELSE LET cells == rows[r]
             metric_name == IF cells = <<>> THEN <<>> ELSE Strip(cells[1])
             value_strings == IF cells = <<>> THEN <<>> ELSE FindValues(JoinSp(Tail(cells)))
         IN  IF cells = <<>> \/ metric_name = <<>> \/ IsDigit(metric_name)
             THEN ScrapeRows(rows, r + 1, fiscal_periods, current_category, context, number)
             ELSE IF value_strings = <<>>
             THEN ScrapeRows(rows, r + 1, fiscal_periods, metric_name, context, number)
             ELSE (IF Len(value_strings) = Len(fiscal_periods)
                   THEN RowPoints(1, fiscal_periods, value_strings, metric_name,
                                  current_category, context, number)
                   ELSE <<>>)
                  \o ScrapeRows(rows, r + 1, fiscal_periods, current_category, context, number)

\* parser.py 95-143 for one table whose table_map entry has this number
ScrapeTable(table, number, context) ==
    LET fiscal_periods == parse_table_headers(table)
    IN  IF Len(fiscal_periods) = 0 THEN <<>>
        ELSE ScrapeRows(table.rows, 1, fiscal_periods, <<>>, context, number)

\* the DataPoints scrape_data_from_tables appends for the tables numbered
\* `numbers` of the sequence `all_tables`
RECURSIVE scrape_data_from_tables(_, _, _)
scrape_data_from_tables(numbers, all_tables, context) ==
    IF numbers = <<>> THEN <<>>
    ELSE ScrapeTable(all_tables[Head(numbers)], Head(numbers), context)
         \o scrape_data_from_tables(Tail(numbers), all_tables, context)

(***************************************************************************)
(* The vocabulary of documents: cell texts, rows and tables.               *)
(***************************************************************************)
T_Cash == <<"C", "a", "s", "h">>
T_Assets == <<"A", "s", "s", "e", "t", "s">>
T_Debt == <<"D", "e", "b", "t">>
T_Item == <<"I", "t", "e", "m">>
T_2024 == <<"2", "0", "2", "4">>
T_2023 == <<"2", "0", "2", "3">>
T_5 == <<"5">>
T_Neg7 == <<"(", "7", ")">>
T_Dash == <<EmDash>>
T_1234_50 == <<"1", ",", "2", "3", "4", ".", "5", "0">>
T_9Pct == <<"9", "%">>

R_Header2 == << <<>>, T_2024, T_2023 >>
R_Header1 == << <<>>, T_2024 >>
R_Section == << T_Assets, <<>>, <<>> >>
R_Cash2 == << T_Cash, T_5, T_Neg7 >>
R_Debt2 == << T_Debt, T_Dash, T_1234_50 >>
R_Cash1 == << T_Cash, T_5 >>
R_Pct == << T_Debt, T_9Pct, T_5 >>
R_Link == << T_Item, T_5 >>

Hits(i, b, c) ==
    [s \in StatementTypes |->
        CASE s = "INCOME_STATEMENT" -> i
          [] s = "BALANCE_SHEET_STATEMENT" -> b
          [] s = "CASH_FLOW_STATEMENT" -> c]

DataTable(rows, hits) ==
    [rows |-> rows, hits |-> hits, heading |-> FALSE, link_rows |-> 0, index |-> <<>>]

TocTable(nrows, heading, link_rows, index) ==
    [rows |-> [i \in 1..nrows |-> R_Link], hits |-> Hits(1, 1, 1),
     heading |-> heading, link_rows |-> link_rows, index |-> index]

TableKinds ==
    << \* 1: a balance sheet with two periods; one row matches, one does not
       DataTable(<<R_Header2, R_Section, R_Cash2, R_Cash1>>, Hits(2, 15, 2)),
       \* 2: an income statement whose header has no year
       DataTable(<<R_Section, R_Cash2>>, Hits(15, 2, 2)),
       \* 3: a cash flow table with one period and only two-token rows
       DataTable(<<R_Header1, R_Cash2, R_Debt2>>, Hits(12, 2, 15)),
       \* 4: scores 10 and 6: a candidate that no category may take
       DataTable(<<R_Header2, R_Debt2>>, Hits(10, 6, 2)),
       \* 5: no score above 5
       DataTable(<<R_Header2, R_Cash2>>, Hits(5, 5, 5)),
       \* 6: a table with a percentage
       DataTable(<<R_Header2, R_Pct, R_Cash2>>, Hits(12, 15, 2)),
       \* 7: a table that scores equally for two statements
       DataTable(<<R_Header2, R_Debt2>>, Hits(15, 15, 2)),
       \* 8: a table of contents of ten link rows, none of whose anchors resolves
       TocTable(10, FALSE, 8, <<>>),
       \* 9: an index to financial statements under a heading, with two
       \*    resolved entries: before the first table and after it
       TocTable(6, TRUE, 2, <<0, 1>>) >>

NumKinds == Len(TableKinds)

\* the table objects of a document whose tables are of the kinds `kinds`
Tables(kinds) == [i \in 1..Len(kinds) |-> TableKinds[kinds[i]]]

(***************************************************************************)
(* The ToC locator and indexer.                                            *)
(***************************************************************************)
\* parser.py 163: len(potential_table.find_all('tr')) > 5
TocHeadingMinRows == 5
\* parser.py 173: len(rows) < 10
TocLinkMinRows == 10
\* parser.py 176: link_count > 7
TocLinkMinLinks == 7

RECURSIVE Ascending(_, _, _)
\* the numbers i..n that are in S, in order
Ascending(S, i, n) ==
    IF i > n THEN <<>>
    ELSE (IF i \in S THEN <<i>> ELSE <<>>) \o Ascending(S, i + 1, n)

ByHeading(table) == table.heading /\ Len(table.rows) > TocHeadingMinRows

ByLinks(table) ==
    /\ ~ByHeading(table)
    /\ ~(Len(table.rows) < TocLinkMinRows)
    /\ table.link_rows > TocLinkMinLinks

\* find_all_toc_tables (parser.py 150-180): the candidates of the heading
\* heuristic, then those of the link-density heuristic, as table numbers
find_all_toc_tables(tables) ==
    Ascending({i \in 1..Len(tables) : ByHeading(tables[i])}, 1, Len(tables))
        \o Ascending({i \in 1..Len(tables) : ByLinks(tables[i])}, 1, Len(tables))

\* parse_toc_table_to_index (parser.py 182-209)
parse_toc_table_to_index(toc_table) == toc_table.index

(***************************************************************************)
(* The classification oracle (llm_analyzer.py).  An answer is what the     *)
(* remote model would yield; without configuration no answer is used.      *)
(***************************************************************************)
\* def validate_financial_toc(toc_descriptions, statement_types, token_counter)
validate_financial_toc_params == 3
\* validate_financial_toc(toc_descriptions, required_statements)
validate_financial_toc_args == 2
\* def classify_toc_items(toc_items, statement_types, token_counter)
classify_toc_items_params == 3
\* classify_toc_items(full_index, list(terms_dict.keys()))
classify_toc_items_args == 2

\* a call of a function without defaults raises TypeError unless it passes
\* as many positional arguments as the function has parameters
CallRaisesTypeError(args, params) == args # params

\* llm_analyzer.py 46-99
validate_financial_toc(configured, answer) == IF ~configured THEN FALSE ELSE answer

\* llm_analyzer.py 101-171: a mapping is a sequence of <<statement, entry>>
classify_toc_items(configured, answer) == IF ~configured THEN <<>> ELSE answer

RECURSIVE MappingOf(_, _)
MappingOf(m, i) ==
    IF i > Len(required_statements) THEN <<>>
    ELSE (IF m[required_statements[i]] = 0 THEN <<>>
          ELSE << <<required_statements[i], m[required_statements[i]]>> >>)
         \o MappingOf(m, i + 1)

\* the mappings the oracle can answer for an index: each statement type is
\* omitted or mapped to an entry
MappingAnswers(full_index) ==
    {MappingOf(m, 1) : m \in [StatementTypes -> 0..Len(full_index)]}

(***************************************************************************)
(* The status report.                                                      *)
(***************************************************************************)
Missing == "Missing"
FoundGuided == "Found (ToC-Guided)"
FoundFallback == "Found (Fallback)"

\* parser.py 370
InitialReport == [s \in StatementTypes |-> Missing]

\* a variant that rebuilds the report around the one status it sets
SetStatusRebuilding(report, s_type, status) ==
    [s \in StatementTypes |-> IF s = s_type THEN status ELSE Missing]

\* status_report['statements'][s_type] = status  (parser.py 271, 328)
SetStatus(report, s_type, status) == [report EXCEPT ![s_type] = status]

(***************************************************************************)
(* The guided scrape (parser.py 212-276).                                  *)
(***************************************************************************)
NoTag == -1

\* get_section_content_between_anchors, then find_all('table') (parser.py
\* 212-231, 262): the numbers of the tables between the anchors
RECURSIVE Range(_, _)
Range(a, b) == IF a > b THEN <<>> ELSE <<a>> \o Range(a + 1, b)

tables_in_section(start_tag, end_tag, ntables) ==
    IF start_tag = end_tag THEN <<>>
    ELSE IF end_tag # NoTag /\ end_tag > start_tag THEN Range(start_tag + 1, end_tag)
    ELSE Range(start_tag + 1, ntables)

\* parser.py 247-257: the anchor of the entry after the last entry that has
\* the start anchor
EndTag(full_index, start_tag) ==
    LET current_pos == CHOOSE i \in 1..Len(full_index) :
                           /\ full_index[i] = start_tag
                           /\ \A j \in (i + 1)..Len(full_index) : full_index[j] # start_tag
    IN  IF current_pos + 1 <= Len(full_index) THEN full_index[current_pos + 1] ELSE NoTag

\* parser.py 249-276, from the k-th mapped statement on; the result is the
\* DataPoints, the report and the number of statements found
RECURSIVE GuidedLoop(_, _, _, _, _, _, _)
GuidedLoop(mapped_statements, k, full_index, tables, data_points, report, found) ==
    IF k > Len(mapped_statements)
    THEN [data_points |-> data_points, report |-> report, found |-> found]
    ELSE LET statement_type == mapped_statements[k][1]
             start_tag == full_index[mapped_statements[k][2]]
             end_tag == EndTag(full_index, start_tag)
             section == tables_in_section(start_tag, end_tag, Len(tables))
             added == scrape_data_from_tables(section, tables, TableDescription(statement_type))
         IN  IF section # <<>> /\ Len(added) > 0
             THEN GuidedLoop(mapped_statements, k + 1, full_index, tables,
                             data_points \o added,
                             SetStatus(report, statement_type, FoundGuided), found + 1)
             ELSE GuidedLoop(mapped_statements, k + 1, full_index, tables,
                             data_points \o added, report, found)

\* process_guided_scrape (parser.py 233-276) once classify_toc_items has
\* returned mapped_statements
process_guided_scrape(mapped_statements, full_index, tables, data_points, report) ==
    IF mapped_statements = <<>>
    THEN [data_points |-> data_points, report |-> report, found |-> 0]
    ELSE GuidedLoop(mapped_statements, 1, full_index, tables, data_points, report, 0)

(***************************************************************************)
(* The fallback scan (parser.py 282-328).                                  *)
(***************************************************************************)
\* parser.py 305: text[:500]
PercentWindow == 500
\* parser.py 310: any(s > 5 ...)
CandidateThreshold == 5
\* parser.py 321: ... > 10
AssignThreshold == 10

Prefix(s, n) == SubSeq(s, 1, IF Len(s) < n THEN Len(s) ELSE n)

\* parser.py 301-312
IsScored(table) ==
    /\ ~Contains(Prefix(TableText(table), PercentWindow), "%")
    /\ \E s \in StatementTypes : table.hits[s] > CandidateThreshold

scored_tables(tables) ==
    Ascending({i \in 1..Len(tables) : IsScored(tables[i])}, 1, Len(tables))

Claimed(found_statements) == {found_statements[i][2] : i \in 1..Len(found_statements)}

\* a variant in which a later candidate of equal score replaces the best
RECURSIVE MaxLast(_, _, _, _)
MaxLast(candidates, tables, s_type, best) ==
    IF candidates = <<>> THEN best
    ELSE IF best = 0 \/ tables[Head(candidates)].hits[s_type] >= tables[best].hits[s_type]
    THEN MaxLast(Tail(candidates), tables, s_type, Head(candidates))
    ELSE MaxLast(Tail(candidates), tables, s_type, best)

\* max(candidates, key=score, default=None): the first candidate of the
\* highest score, 0 for None
RECURSIVE MaxFirst(_, _, _, _)
MaxFirst(candidates, tables, s_type, best) ==
    IF candidates = <<>> THEN best
    ELSE IF best = 0 \/ tables[Head(candidates)].hits[s_type] > tables[best].hits[s_type]
    THEN MaxFirst(Tail(candidates), tables, s_type, Head(candidates))
    ELSE MaxFirst(Tail(candidates), tables, s_type, best)

\* a variant that leaves the claimed tables among the candidates
UnclaimedKeepingAll(candidates, claimed) == candidates

\* parser.py 317: the candidates whose table is not in found_statements.values()
RECURSIVE Unclaimed(_, _)
Unclaimed(candidates, claimed) ==
    IF candidates = <<>> THEN <<>>
    ELSE (IF Head(candidates) \in claimed THEN <<>> ELSE <<Head(candidates)>>)
         \o Unclaimed(Tail(candidates), claimed)

\* parser.py 314-323, from the i-th statement type on
RECURSIVE AssignFrom(_, _, _, _)
AssignFrom(i, scored, tables, found_statements) ==
    IF i > Len(required_statements) THEN found_statements
    ELSE LET s_type == required_statements[i]
             best_candidate == MaxFirst(Unclaimed(scored, Claimed(found_statements)),
                                        tables, s_type, 0)
         IN  IF best_candidate # 0 /\ tables[best_candidate].hits[s_type] > AssignThreshold
             THEN AssignFrom(i + 1, scored, tables,
                             Append(found_statements, <<s_type, best_candidate>>))
             ELSE AssignFrom(i + 1, scored, tables, found_statements)

\* found_statements of the fallback: a sequence of <<statement, table number>>
fallback_found_statements(tables) == AssignFrom(1, scored_tables(tables), tables, <<>>)

(***************************************************************************)
(* State.                                                                  *)
(*                                                                         *)
(* A filing is a record: readable (open() and read() succeed), header      *)
(* (what extract_fiscal_period finds in the leading text) and tables (the  *)
(* kinds of the document's tables, in document order).                     *)
(*                                                                         *)
(* The variables of process_single_filing are functions of the position    *)
(* of the filing in downloaded_files_info: each filing is processed by its *)
(* own worker process, which shares no state with the others.              *)
(***************************************************************************)
VARIABLES
    GEMINI_CONFIGURED,          \* llm_analyzer.py 33-44
    downloaded_files_info,      \* the filings handed to the workers
    pc,                         \* where each worker is
    status_report,              \* status_report['statements']
    file_data_points,
    guided_scrape_successful,
    potential_toc_tables,       \* the ToC candidates, as table numbers
    cand,                       \* the candidate the loop of parser.py 402 is at
    found_statements,           \* of the fallback
    fpos,                       \* the entry the loop of parser.py 325 is at
    result,                     \* <<>> until the worker returns its tuple
    exc,                        \* the exception caught at parser.py 432
    calls,                      \* how often each stage has been entered
    stage,                      \* where scrape_sec_filings is
    filings_meta_to_process,
    results,                    \* list(executor.map(...))
    all_data_points,
    filing_reports,
    apos,                       \* the result the loop of main.py 130 is at
    returned,                   \* what scrape_sec_filings returned
    scraped_table,              \* the table scrape_data_from_tables is at
    tpc,                        \* where the scrape of that table is
    fiscal_periods,             \* parser.py 99
    row,                        \* the row the loop of parser.py 108 is at
    current_category,           \* parser.py 107
    scraped_tables,             \* parser.py 88: the tables handed to the scraper
    table_pos,                  \* parser.py 94: the position of the loop over them
    value_str,                  \* the argument of parse_financial_value
    value,                      \* what it returned
    vpc,                        \* where the call of parse_financial_value is
    filings_meta,               \* downloader.py 40: the filings to download
    disk,                       \* the content of each file of save_dir
    tasks,                      \* downloader.py 48: where each fetch_and_save is
    gathered,                   \* downloader.py 49: what each fetch_and_save returned
    dstage,                     \* where download_all_filings is
    run_no,                     \* the number of the call of download_all_filings
    gets,                       \* the (call, filing) pairs of session.get
    writes,                     \* the (call, filing) pairs of open(filepath, 'w')
    returns,                    \* per finished call: its tasks, its list, the disk
    main_pc,                    \* main.py 180-209: where main is
    manager_up,                 \* main.py 186: the Manager that serves log_queue
    log_queue,                  \* main.py 187
    listener,                   \* main.py 189-190: the listener process
    whoops                      \* main.py 35-38: the listener reported a problem

wvars == <<pc, status_report, file_data_points, guided_scrape_successful,
           potential_toc_tables, cand, found_statements, fpos, result, exc, calls>>

mvars == <<stage, filings_meta_to_process, results, all_data_points, filing_reports,
           apos, returned>>

\* the variables of one call of scrape_data_from_tables on one table, taken
\* step by step (its all_data_points is the variable of that name)
\* the list of tables and the position in it
lvars == <<scraped_tables, table_pos>>

tvars == <<scraped_table, tpc, fiscal_periods, row, current_category, lvars>>

\* the variables of the operations that are taken on their own
\* the variables of one call of parse_financial_value
pvars == <<value_str, value, vpc>>

\* the variables of the download stage
dvars == <<filings_meta, disk, tasks, gathered, dstage, run_no, gets, writes, returns>>

\* the variables of main and of its log listener
avars == <<main_pc, manager_up, log_queue, listener, whoops>>

uvars == <<tvars, pvars, dvars, avars>>

vars == <<GEMINI_CONFIGURED, downloaded_files_info, wvars, mvars, uvars>>

Headers == {"no_phrase", "phrase_no_date", "phrase_bad_date", "phrase_date"}

\* a variant that takes the period phrase alone for a resolved period
PeriodFoundByPhrase(header) == header # "no_phrase"

\* extract_fiscal_period (parser.py 334-351) returns a date only if the
\* period phrase is found, a date follows the pattern and strptime parses it
PeriodFound(header) == header = "phrase_date"

RECURSIVE SeqsUpTo(_, _)
\* the sequences over S of length at most n
SeqsUpTo(S, n) ==
    IF n = 0 THEN {<<>>}
    ELSE LET shorter == SeqsUpTo(S, n - 1)
         IN  shorter \cup {Append(q, x) : q \in {r \in shorter : Len(r) = n - 1}, x \in S}

\* a file that cannot be read has no content
UnreadableFiling == [readable |-> FALSE, header |-> "no_phrase", tables |-> <<>>]

Filings ==
    {UnreadableFiling} \cup
    [readable : {TRUE}, header : Headers, tables : SeqsUpTo(1..NumKinds, MaxTables)]

NoCalls == [locator |-> 0, indexer |-> 0, validate |-> 0, classify |-> 0, fallback |-> 0]

\* the workers' variables when the pool starts on n filings
WorkersInit(n) ==
    /\ pc = [f \in 1..n |-> "start"]
    /\ status_report = [f \in 1..n |-> InitialReport]
    /\ file_data_points = [f \in 1..n |-> <<>>]
    /\ guided_scrape_successful = [f \in 1..n |-> FALSE]
    /\ potential_toc_tables = [f \in 1..n |-> <<>>]
    /\ cand = [f \in 1..n |-> 0]
    /\ found_statements = [f \in 1..n |-> <<>>]
    /\ fpos = [f \in 1..n |-> 0]
    /\ result = [f \in 1..n |-> <<>>]
    /\ exc = [f \in 1..n |-> "none"]
    /\ calls = [f \in 1..n |-> NoCalls]

\* the same, as the step that starts the pool
WorkersStart(n) ==
    /\ pc' = [f \in 1..n |-> "start"]
    /\ status_report' = [f \in 1..n |-> InitialReport]
    /\ file_data_points' = [f \in 1..n |-> <<>>]
    /\ guided_scrape_successful' = [f \in 1..n |-> FALSE]
    /\ potential_toc_tables' = [f \in 1..n |-> <<>>]
    /\ cand' = [f \in 1..n |-> 0]
    /\ found_statements' = [f \in 1..n |-> <<>>]
    /\ fpos' = [f \in 1..n |-> 0]
    /\ result' = [f \in 1..n |-> <<>>]
    /\ exc' = [f \in 1..n |-> "none"]
    /\ calls' = [f \in 1..n |-> NoCalls]

\* no table is being scraped step by step
TableIdle ==
    /\ scraped_table = [rows |-> <<>>]
    /\ tpc = "idle"
    /\ fiscal_periods = <<>>
    /\ row = 0
    /\ current_category = <<>>
    /\ scraped_tables = <<>>
    /\ table_pos = 0

\* parse_financial_value is not being called on its own
ValueIdle ==
    /\ value_str = <<>>
    /\ value = None
    /\ vpc = "idle"

\* download_all_filings is not being followed step by step
DownloadIdle ==
    /\ filings_meta = <<>>
    /\ disk = <<>>
    /\ tasks = <<>>
    /\ gathered = <<>>
    /\ dstage = "idle"
    /\ run_no = 0
    /\ gets = {}
    /\ writes = {}
    /\ returns = <<>>

\* main has not been called: no Manager, no listener
LogIdle ==
    /\ main_pc = "idle"
    /\ manager_up = FALSE
    /\ log_queue = <<>>
    /\ listener = "none"
    /\ whoops = FALSE

UnitIdle == TableIdle /\ ValueIdle /\ DownloadIdle /\ LogIdle

MainIdle ==
    /\ stage = "worker"
    /\ filings_meta_to_process = <<>>
    /\ results = <<>>
    /\ all_data_points = <<>>
    /\ filing_reports = <<>>
    /\ apos = 0
    /\ returned = "nothing"

\* one filing, processed by one call of process_single_filing
Init ==
    /\ GEMINI_CONFIGURED \in BOOLEAN
    /\ \E filing \in Filings : downloaded_files_info = <<filing>>
    /\ WorkersInit(1)
    /\ MainIdle
    /\ UnitIdle

(***************************************************************************)
(* process_single_filing (parser.py 360-434), step by step.                *)
(***************************************************************************)
Running(f) == f \in DOMAIN pc /\ stage \in {"worker", "pool"}

DocTables(f) == Tables(downloaded_files_info[f].tables)

\* a variant whose handler does not catch the exception
ExceptionPropagates == "raised"

\* what an exception inside the try block leads to (parser.py 432-434)
ExceptionOutcome == "returned"

\* parser.py 432-434: an exception e raised inside the try block at filing f
Except(f, e) ==
    /\ exc' = [exc EXCEPT ![f] = e]
    /\ IF ExceptionOutcome = "returned"
       THEN /\ result' = [result EXCEPT ![f] = << <<>>, status_report[f] >>]
            /\ pc' = [pc EXCEPT ![f] = "done"]
       ELSE /\ result' = result
            /\ pc' = [pc EXCEPT ![f] = "raised"]

\* parser.py 365-374: set up the report and read the file
ReadFile(f) ==
    /\ Running(f)
    /\ pc[f] = "start"
    /\ IF downloaded_files_info[f].readable
       THEN /\ pc' = [pc EXCEPT ![f] = "period"]
            /\ UNCHANGED <<result, exc>>
       ELSE Except(f, "OSError")
    /\ UNCHANGED <<status_report, file_data_points, guided_scrape_successful,
                   potential_toc_tables, cand, found_statements, fpos, calls>>
    /\ UNCHANGED <<GEMINI_CONFIGURED, downloaded_files_info, mvars, uvars>>

\* parser.py 376-398: resolve the fiscal period, number the tables and
\* locate the ToC candidates
ExtractPeriod(f) ==
    /\ Running(f)
    /\ pc[f] = "period"
    /\ IF ~PeriodFound(downloaded_files_info[f].header)
       THEN /\ result' = [result EXCEPT ![f] = << <<>>, status_report[f] >>]
            /\ pc' = [pc EXCEPT ![f] = "done"]
            /\ UNCHANGED <<potential_toc_tables, cand, calls>>
       ELSE /\ potential_toc_tables' =
                [potential_toc_tables EXCEPT ![f] = find_all_toc_tables(DocTables(f))]
            /\ calls' = [calls EXCEPT ![f].locator = @ + 1]
            /\ cand' = [cand EXCEPT ![f] = 1]
            /\ pc' = [pc EXCEPT ![f] = "toc"]
            /\ UNCHANGED result
    /\ UNCHANGED <<status_report, file_data_points, guided_scrape_successful,
                   found_statements, fpos, exc>>
    /\ UNCHANGED <<GEMINI_CONFIGURED, downloaded_files_info, mvars, uvars>>

\* parser.py 402-422: one pass of the loop over the ToC candidates
TocAttempt(f) ==
    /\ Running(f)
    /\ pc[f] = "toc"
    /\ cand[f] <= Len(potential_toc_tables[f])
    /\ LET tables == DocTables(f)
           filing_index == parse_toc_table_to_index(tables[potential_toc_tables[f][cand[f]]])
           next == [cand EXCEPT ![f] = @ + 1]
       IN  IF filing_index = <<>>
           THEN \* parser.py 406-408
                /\ cand' = next
                /\ calls' = [calls EXCEPT ![f].indexer = @ + 1]
                /\ UNCHANGED <<pc, status_report, file_data_points,
                               guided_scrape_successful, result, exc>>
           ELSE IF CallRaisesTypeError(validate_financial_toc_args,
                                       validate_financial_toc_params)
           THEN \* parser.py 412
                /\ Except(f, "TypeError")
                /\ calls' = [calls EXCEPT ![f].indexer = @ + 1, ![f].validate = @ + 1]
                /\ UNCHANGED <<cand, status_report, file_data_points,
                               guided_scrape_successful>>
           ELSE \E valid \in BOOLEAN :
                IF ~validate_financial_toc(GEMINI_CONFIGURED, valid)
                THEN \* parser.py 421-422
                     /\ cand' = next
                     /\ calls' = [calls EXCEPT ![f].indexer = @ + 1, ![f].validate = @ + 1]
                     /\ UNCHANGED <<pc, status_report, file_data_points,
                                    guided_scrape_successful, result, exc>>
                ELSE IF CallRaisesTypeError(classify_toc_items_args,
                                            classify_toc_items_params)
                THEN \* parser.py 240
                     /\ Except(f, "TypeError")
                     /\ calls' = [calls EXCEPT ![f].indexer = @ + 1,
                                               ![f].validate = @ + 1,
                                               ![f].classify = @ + 1]
                     /\ UNCHANGED <<cand, status_report, file_data_points,
                                    guided_scrape_successful>>
                ELSE \E mapping \in MappingAnswers(filing_index) :
                     LET g == process_guided_scrape(
                                  classify_toc_items(GEMINI_CONFIGURED, mapping),
                                  filing_index, tables,
                                  file_data_points[f], status_report[f])
                     IN  /\ file_data_points' = [file_data_points EXCEPT ![f] = g.data_points]
                         /\ status_report' = [status_report EXCEPT ![f] = g.report]
                         /\ calls' = [calls EXCEPT ![f].indexer = @ + 1,
                                                   ![f].validate = @ + 1,
                                                   ![f].classify = @ + 1]
                         /\ IF g.found > 0
                            THEN \* parser.py 417-420
                                 /\ guided_scrape_successful' =
                                        [guided_scrape_successful EXCEPT ![f] = TRUE]
                                 /\ pc' = [pc EXCEPT ![f] = "after"]
                                 /\ cand' = cand
                            ELSE /\ cand' = next
                                 /\ UNCHANGED <<pc, guided_scrape_successful>>
                         /\ UNCHANGED <<result, exc>>
    /\ UNCHANGED <<potential_toc_tables, found_statements, fpos>>
    /\ UNCHANGED <<GEMINI_CONFIGURED, downloaded_files_info, mvars, uvars>>

\* parser.py 425-430 and 282-323: after the loop, either score the tables
\* and assign them to the statements, or return the guided result
AfterLoop(f) ==
    /\ Running(f)
    /\ \/ pc[f] = "toc" /\ cand[f] > Len(potential_toc_tables[f])
       \/ pc[f] = "after"
    /\ IF ~guided_scrape_successful[f]
       THEN /\ found_statements' =
                [found_statements EXCEPT ![f] = fallback_found_statements(DocTables(f))]
            /\ calls' = [calls EXCEPT ![f].fallback = @ + 1]
            /\ fpos' = [fpos EXCEPT ![f] = 1]
            /\ pc' = [pc EXCEPT ![f] = "scrape"]
            /\ UNCHANGED result
       ELSE /\ result' = [result EXCEPT ![f] = <<file_data_points[f], status_report[f]>>]
            /\ pc' = [pc EXCEPT ![f] = "done"]
            /\ UNCHANGED <<found_statements, calls, fpos>>
    /\ UNCHANGED <<status_report, file_data_points, guided_scrape_successful,
                   potential_toc_tables, cand, exc>>
    /\ UNCHANGED <<GEMINI_CONFIGURED, downloaded_files_info, mvars, uvars>>

\* the status the fallback records for a statement it assigned a table to
\* (parser.py 328)
FallbackStatus == FoundFallback

\* parser.py 325-328: scrape the table assigned to one statement
FallbackScrape(f) ==
    /\ Running(f)
    /\ pc[f] = "scrape"
    /\ fpos[f] <= Len(found_statements[f])
    /\ LET s_type == found_statements[f][fpos[f]][1]
           table == found_statements[f][fpos[f]][2]
           added == scrape_data_from_tables(<<table>>, DocTables(f), TableDescription(s_type))
       IN  /\ file_data_points' = [file_data_points EXCEPT ![f] = @ \o added]
           /\ status_report' =
                  [status_report EXCEPT ![f] = SetStatus(@, s_type, FallbackStatus)]
    /\ fpos' = [fpos EXCEPT ![f] = @ + 1]
    /\ UNCHANGED <<pc, guided_scrape_successful, potential_toc_tables, cand,
                   found_statements, result, exc, calls>>
    /\ UNCHANGED <<GEMINI_CONFIGURED, downloaded_files_info, mvars, uvars>>

\* parser.py 429-430
Return(f) ==
    /\ Running(f)
    /\ pc[f] = "scrape"
    /\ fpos[f] > Len(found_statements[f])
    /\ result' = [result EXCEPT ![f] = <<file_data_points[f], status_report[f]>>]
    /\ pc' = [pc EXCEPT ![f] = "done"]
    /\ UNCHANGED <<status_report, file_data_points, guided_scrape_successful,
                   potential_toc_tables, cand, found_statements, fpos, exc, calls>>
    /\ UNCHANGED <<GEMINI_CONFIGURED, downloaded_files_info, mvars, uvars>>

Next ==
    \/ \E f \in DOMAIN pc : ReadFile(f)
    \/ \E f \in DOMAIN pc : ExtractPeriod(f)
    \/ \E f \in DOMAIN pc : TocAttempt(f)
    \/ \E f \in DOMAIN pc : AfterLoop(f)
    \/ \E f \in DOMAIN pc : FallbackScrape(f)
    \/ \E f \in DOMAIN pc : Return(f)

Spec == Init /\ [][Next]_vars

(***************************************************************************)
(* scrape_sec_filings (main.py 93-170): download, process pool, and the    *)
(* single-threaded aggregation of the workers' results.                    *)
(***************************************************************************)
\* the filings of a batch
BatchFilings ==
    { UnreadableFiling,
      [readable |-> TRUE, header |-> "no_phrase", tables |-> <<1>>],
      [readable |-> TRUE, header |-> "phrase_date", tables |-> <<1>>],
      [readable |-> TRUE, header |-> "phrase_date", tables |-> <<9, 1>>] }

\* a metadata record and what becomes of its fetch
Metas == [filing : BatchFilings, fetched : BOOLEAN]

\* download_all_filings (downloader.py 40-53): the filings whose fetch gave
\* a file path, in input order
RECURSIVE download_all_filings(_)
download_all_filings(metas) ==
    IF metas = <<>> THEN <<>>
    ELSE (IF Head(metas).fetched THEN <<Head(metas).filing>> ELSE <<>>)
         \o download_all_filings(Tail(metas))

\* main.py 130: for result_data, report, token_counts in results
UnpackTargets == 3

\* unpacking a tuple raises ValueError unless it has as many items as there
\* are targets
UnpackRaisesValueError(tuple, targets) == Len(tuple) # targets

InitBatch ==
    /\ GEMINI_CONFIGURED \in BOOLEAN
    /\ filings_meta_to_process \in SeqsUpTo(Metas, MaxFilings)
    /\ downloaded_files_info = <<>>
    /\ WorkersInit(0)
    /\ stage = "start"
    /\ results = <<>>
    /\ all_data_points = <<>>
    /\ filing_reports = <<>>
    /\ apos = 0
    /\ returned = "nothing"
    /\ UnitIdle

\* main.py 103-128: fetch the filings and start a worker per filing
Download ==
    /\ stage = "start"
    /\ LET files == download_all_filings(filings_meta_to_process)
       IN  IF filings_meta_to_process = <<>> \/ files = <<>>
           THEN /\ stage' = "returned"
                /\ returned' = "None"
                /\ UNCHANGED <<downloaded_files_info, wvars>>
           ELSE /\ stage' = "pool"
                /\ downloaded_files_info' = files
                /\ WorkersStart(Len(files))
                /\ UNCHANGED returned
    /\ UNCHANGED <<GEMINI_CONFIGURED, filings_meta_to_process, results,
                   all_data_points, filing_reports, apos, uvars>>

\* main.py 127-128: list(executor.map(...)) yields the workers' results in
\* input order once all have ended, and re-raises a worker's exception
Join ==
    /\ stage = "pool"
    /\ \A f \in DOMAIN pc : pc[f] \in {"done", "raised"}
    /\ IF \E f \in DOMAIN pc : pc[f] = "raised"
       THEN /\ stage' = "raised"
            /\ UNCHANGED <<results, apos>>
       ELSE /\ stage' = "aggregate"
            /\ results' = [f \in DOMAIN pc |-> result[f]]
            /\ apos' = 1
    /\ UNCHANGED <<GEMINI_CONFIGURED, downloaded_files_info, wvars,
                   filings_meta_to_process, all_data_points, filing_reports, returned,
                   uvars>>

\* main.py 130-170: one pass of the loop over the results, or what follows
\* the loop
Aggregate ==
    /\ stage = "aggregate"
    /\ IF apos <= Len(results)
       THEN IF UnpackRaisesValueError(results[apos], UnpackTargets)
            THEN /\ stage' = "raised"
                 /\ UNCHANGED <<all_data_points, filing_reports, apos, returned>>
            ELSE /\ all_data_points' = all_data_points \o results[apos][1]
                 /\ filing_reports' =
                        Append(filing_reports,
                               [statements |-> results[apos][2], tokens |-> results[apos][3]])
                 /\ apos' = apos + 1
                 /\ UNCHANGED <<stage, returned>>
       ELSE /\ stage' = "returned"
            /\ returned' = IF all_data_points = <<>> THEN "None" ELSE "DataFrame"
            /\ UNCHANGED <<all_data_points, filing_reports, apos>>
    /\ UNCHANGED <<GEMINI_CONFIGURED, downloaded_files_info, wvars,
                   filings_meta_to_process, results, uvars>>

NextBatch ==
    \/ Download
    \/ \E f \in DOMAIN pc : ReadFile(f)
    \/ \E f \in DOMAIN pc : ExtractPeriod(f)
    \/ \E f \in DOMAIN pc : TocAttempt(f)
    \/ \E f \in DOMAIN pc : AfterLoop(f)
    \/ \E f \in DOMAIN pc : FallbackScrape(f)
    \/ \E f \in DOMAIN pc : Return(f)
    \/ Join
    \/ Aggregate

SpecBatch == InitBatch /\ [][NextBatch]_vars

(***************************************************************************)
(* scrape_data_from_tables (parser.py 88-143) on one table, one row at a   *)
(* step.                                                                   *)
(***************************************************************************)
\* the most rows a table scraped step by step has
MaxRows == 4

T_1to2 == <<"1", "-", "2">>

\* a header whose two columns are of the same year
R_HeaderDup == << <<>>, T_2024, T_2024 >>
\* a second section heading
R_Debt0 == << T_Debt, <<>>, <<>> >>
\* a row whose label is a number
R_Num2 == << T_5, T_5, T_Neg7 >>
\* a row with a token that is no number
R_Range2 == << T_Debt, T_5, T_1to2 >>

RowKinds == <<R_Header2, R_HeaderDup, R_Section, R_Debt0, R_Cash2, R_Cash1, R_Num2,
              R_Range2>>

\* the context and the table_map number of the table scraped step by step
ScrapedContext == TableDescription("BALANCE_SHEET_STATEMENT")

ScrapedNumber == 1

\* parser.py 113: the label of a row
metric_name_of(cells) == IF cells = <<>> THEN <<>> ELSE Strip(cells[1])

\* parser.py 118-119: the tokens of the cells after the first
value_strings_of(cells) == IF cells = <<>> THEN <<>> ELSE FindValues(JoinSp(Tail(cells)))

\* a variant that skips a row only for a missing label
RowSkippedForNoLabel(cells) == cells = <<>> \/ metric_name_of(cells) = <<>>

\* parser.py 110-115: the rows the loop passes over
RowSkipped(cells) ==
    cells = <<>> \/ metric_name_of(cells) = <<>> \/ IsDigit(metric_name_of(cells))

\* a variant that lets a row of fewer tokens through
RowMatchesOrShorter(value_strings, periods) == Len(value_strings) <= Len(periods)

\* parser.py 127
RowMatches(value_strings, periods) == Len(value_strings) = Len(periods)

\* what a step on one table leaves alone
not_tvars == <<GEMINI_CONFIGURED, downloaded_files_info, wvars, stage,
               filings_meta_to_process, results, filing_reports, apos, returned, pvars, dvars,
               avars>>

InitTable ==
    /\ GEMINI_CONFIGURED = FALSE
    /\ downloaded_files_info = <<>>
    /\ WorkersInit(0)
    /\ MainIdle
    /\ \E kinds \in SeqsUpTo(1..Len(RowKinds), MaxRows) :
           scraped_table = DataTable([i \in 1..Len(kinds) |-> RowKinds[kinds[i]]],
                                     Hits(0, 0, 0))
    /\ tpc = "headers"
    /\ fiscal_periods = <<>>
    /\ row = 0
    /\ current_category = <<>>
    /\ scraped_tables = <<scraped_table>>
    /\ table_pos = 1
    /\ ValueIdle
    /\ DownloadIdle
    /\ LogIdle

\* a variant that keeps the category of the table before
CategoryCarriedOver(previous) == previous

\* parser.py 107: current_category = ""
CategoryAtTableStart(previous) == <<>>

\* parser.py 99-107: resolve the periods; a table without any is skipped
ResolveHeaders ==
    /\ tpc = "headers"
    /\ fiscal_periods' = parse_table_headers(scraped_table)
    /\ IF Len(parse_table_headers(scraped_table)) = 0
       THEN /\ tpc' = "done"
            /\ UNCHANGED <<row, current_category>>
       ELSE /\ tpc' = "rows"
            /\ row' = 1
            /\ current_category' = CategoryAtTableStart(current_category)
    /\ UNCHANGED <<scraped_table, all_data_points, lvars, not_tvars>>

\* parser.py 108-143: one pass of the loop over the rows
ScrapeRow ==
    /\ tpc = "rows"
    /\ row <= Len(scraped_table.rows)
    /\ LET cells == scraped_table.rows[row]
           metric_name == metric_name_of(cells)
           value_strings == value_strings_of(cells)
       IN  IF RowSkipped(cells)
           THEN UNCHANGED <<all_data_points, current_category>>
           ELSE IF value_strings = <<>>
           THEN /\ current_category' = metric_name
                /\ UNCHANGED all_data_points
           ELSE /\ all_data_points' =
                       all_data_points \o
                       (IF RowMatches(value_strings, fiscal_periods)
                        THEN RowPoints(1, fiscal_periods, value_strings, metric_name,
                                       current_category, ScrapedContext, ScrapedNumber)
                        ELSE <<>>)
                /\ UNCHANGED current_category
    /\ row' = row + 1
    /\ UNCHANGED <<scraped_table, tpc, fiscal_periods, lvars, not_tvars>>

\* the loop of parser.py 108 has passed the last row
EndOfTable ==
    /\ tpc = "rows"
    /\ row > Len(scraped_table.rows)
    /\ tpc' = "done"
    /\ UNCHANGED <<scraped_table, fiscal_periods, row, current_category,
                   all_data_points, lvars, not_tvars>>

NextTable ==
    \/ ResolveHeaders
    \/ ScrapeRow
    \/ EndOfTable

SpecTable == InitTable /\ [][NextTable]_vars

(***************************************************************************)
(* scrape_data_from_tables (parser.py 88-143) over a list of tables.       *)
(***************************************************************************)
\* a row without any text
R_Blank == << <<>>, <<>>, <<>> >>

\* the rows of the first table of the list
BlankRowKinds == <<R_Header2, R_Debt0, R_Blank, R_Cash2>>

\* the tables that follow the first: none, one, or one without a year
\* header and one with a blank row
FollowingTables ==
    { <<>>,
      << DataTable(<<R_Header2, R_Cash2>>, Hits(0, 0, 0)) >>,
      << DataTable(<<R_Cash2>>, Hits(0, 0, 0)),
         DataTable(<<R_Header2, R_Blank, R_Cash2>>, Hits(0, 0, 0)) >> }

InitTables ==
    /\ GEMINI_CONFIGURED = FALSE
    /\ downloaded_files_info = <<>>
    /\ WorkersInit(0)
    /\ MainIdle
    /\ \E kinds \in SeqsUpTo(1..Len(BlankRowKinds), MaxRows), following \in FollowingTables :
           scraped_tables =
               << DataTable([i \in 1..Len(kinds) |-> BlankRowKinds[kinds[i]]], Hits(0, 0, 0)) >>
               \o following
    /\ scraped_table = scraped_tables[1]
    /\ table_pos = 1
    /\ tpc = "headers"
    /\ fiscal_periods = <<>>
    /\ row = 0
    /\ current_category = <<>>
    /\ ValueIdle
    /\ DownloadIdle
    /\ LogIdle

\* parser.py 94: the loop moves on to the next table of the list
NextOfTables ==
    /\ tpc = "done"
    /\ table_pos < Len(scraped_tables)
    /\ table_pos' = table_pos + 1
    /\ scraped_table' = scraped_tables[table_pos + 1]
    /\ tpc' = "headers"
    /\ UNCHANGED <<scraped_tables, fiscal_periods, row, current_category,
                   all_data_points, not_tvars>>

NextTables ==
    \/ ResolveHeaders
    \/ ScrapeRow
    \/ EndOfTable
    \/ NextOfTables

SpecTables == InitTables /\ [][NextTables]_vars

(***************************************************************************)
(* parse_financial_value (parser.py 17-34) on its own.                     *)
(***************************************************************************)
\* the longest cell string drawn from the characters
MaxValueLen == 5

\* the characters of the cell strings
ValueChars == {"1", ",", ".", "-", "(", ")", "$", EmDash, " "}

\* longer cell strings
ValueExamples ==
    { <<"(", "1", ",", "2", "3", "4", ")">>,
      T_1234_50,
      <<"$", "1", ",", "2", "3", "4">> }

InitValue ==
    /\ GEMINI_CONFIGURED = FALSE
    /\ downloaded_files_info = <<>>
    /\ WorkersInit(0)
    /\ MainIdle
    /\ TableIdle
    /\ DownloadIdle
    /\ LogIdle
    /\ value_str \in SeqsUpTo(ValueChars, MaxValueLen) \cup ValueExamples
    /\ value = None
    /\ vpc = "call"

\* the call and its return
ParseValue ==
    /\ vpc = "call"
    /\ value' = parse_financial_value(value_str)
    /\ vpc' = "returned"
    /\ UNCHANGED <<value_str, GEMINI_CONFIGURED, downloaded_files_info, wvars, mvars, tvars, dvars, avars>>

NextValue == ParseValue

SpecValue == InitValue /\ [][NextValue]_vars

(***************************************************************************)
(* The download stage (downloader.py), one step of a coroutine at a time,  *)
(* called twice on the same list with the same save_dir.                   *)
(***************************************************************************)
\* downloader.py 14-20: symbol, form_type and date_filed are those of one
\* company and day, so that ref tells the file names apart
filepath_of(meta) == <<"save_dir", "SYM_10-K_2024-01-01", meta.ref>>

\* the metadata records: one without url, and two that share their ref
MetaKinds ==
    { [url |-> "",   ref |-> "no_ref", local_filepath |-> <<>>],
      [url |-> "u1", ref |-> "1",      local_filepath |-> <<>>],
      [url |-> "u2", ref |-> "2",      local_filepath |-> <<>>],
      [url |-> "u3", ref |-> "2",      local_filepath |-> <<>>] }

Filepaths == {filepath_of(meta) : meta \in MetaKinds}

\* no such file
Absent == "absent"

\* downloader.py 11, 38: (None, None)
NoResult == <<>>

\* downloader.py 24 with the cache test removed
CacheHitNever(files_on_disk, filepath) == FALSE

\* downloader.py 24: os.path.exists(filepath)
CacheHit(files_on_disk, filepath) == files_on_disk[filepath] # Absent

\* downloader.py 36-38 handing the path on after a failure
OnExceptionForward(filepath, meta) == <<filepath, meta>>

\* downloader.py 36-38: any exception of the try block
OnException(filepath, meta) == NoResult

\* how session.get, response.text(), open and write can end (28-35)
FetchOutcomes == {"http_error", "timeout", "open_error", "write_error", "saved"}

\* the states in which fetch_and_save has returned
TaskDone == {"missing_url", "cached", "failed_http", "failed_timeout", "failed_write", "saved"}

InitDownload ==
    /\ GEMINI_CONFIGURED = FALSE
    /\ downloaded_files_info = <<>>
    /\ WorkersInit(0)
    /\ MainIdle
    /\ TableIdle
    /\ ValueIdle
    /\ LogIdle
    /\ filings_meta \in SeqsUpTo(MetaKinds, MaxFilings)
    /\ disk \in [Filepaths -> {Absent, "old"}]
    /\ tasks = [i \in DOMAIN filings_meta |-> "created"]
    /\ gathered = [i \in DOMAIN filings_meta |-> NoResult]
    /\ dstage = "tasks"
    /\ run_no = 1
    /\ gets = {}
    /\ writes = {}
    /\ returns = <<>>

\* downloader.py 9-28: a task runs up to its first await; asyncio starts the
\* tasks of gather in the order of their creation
StartFetch(i) ==
    /\ dstage = "tasks"
    /\ tasks[i] = "created"
    /\ \A j \in 1..(i - 1) : tasks[j] # "created"
    /\ LET filing_meta == filings_meta[i]
           filepath == filepath_of(filing_meta)
           with_path == [filing_meta EXCEPT !.local_filepath = filepath]
       IN  IF filing_meta.url = ""
           THEN /\ tasks' = [tasks EXCEPT ![i] = "missing_url"]
                /\ gathered' = [gathered EXCEPT ![i] = NoResult]
                /\ UNCHANGED <<filings_meta, gets>>
           ELSE /\ filings_meta' = [filings_meta EXCEPT ![i] = with_path]
                /\ IF CacheHit(disk, filepath)
                   THEN /\ tasks' = [tasks EXCEPT ![i] = "cached"]
                        /\ gathered' = [gathered EXCEPT ![i] = <<filepath, with_path>>]
                        /\ UNCHANGED gets
                   ELSE /\ tasks' = [tasks EXCEPT ![i] = "get"]
                        /\ gets' = gets \cup {<<run_no, i>>}
                        /\ UNCHANGED gathered
    /\ UNCHANGED <<disk, dstage, run_no, writes, returns>>
    /\ UNCHANGED <<GEMINI_CONFIGURED, downloaded_files_info, wvars, mvars, tvars, pvars,
                   avars>>

\* downloader.py 28-38: the response arrives, or does not, and is written;
\* no response is handled before every task has run to its first await
FinishFetch(i) ==
    /\ dstage = "tasks"
    /\ tasks[i] = "get"
    /\ \A j \in DOMAIN tasks : tasks[j] # "created"
    /\ LET filing_meta == filings_meta[i]
           filepath == filepath_of(filing_meta)
       IN  \E outcome \in FetchOutcomes :
             CASE outcome = "http_error" ->
                    /\ tasks' = [tasks EXCEPT ![i] = "failed_http"]
                    /\ gathered' = [gathered EXCEPT ![i] = OnException(filepath, filing_meta)]
                    /\ UNCHANGED <<disk, writes>>
               [] outcome = "timeout" ->
                    /\ tasks' = [tasks EXCEPT ![i] = "failed_timeout"]
                    /\ gathered' = [gathered EXCEPT ![i] = OnException(filepath, filing_meta)]
                    /\ UNCHANGED <<disk, writes>>
               [] outcome = "open_error" ->
                    /\ tasks' = [tasks EXCEPT ![i] = "failed_write"]
                    /\ gathered' = [gathered EXCEPT ![i] = OnException(filepath, filing_meta)]
                    /\ UNCHANGED <<disk, writes>>
               [] outcome = "write_error" ->
                    /\ tasks' = [tasks EXCEPT ![i] = "failed_write"]
                    /\ gathered' = [gathered EXCEPT ![i] = OnException(filepath, filing_meta)]
                    /\ disk' = [disk EXCEPT ![filepath] = "partial"]
                    /\ writes' = writes \cup {<<run_no, i>>}
               [] outcome = "saved" ->
                    /\ tasks' = [tasks EXCEPT ![i] = "saved"]
                    /\ gathered' = [gathered EXCEPT ![i] = <<filepath, filing_meta>>]
                    /\ disk' = [disk EXCEPT ![filepath] = filing_meta.url]
                    /\ writes' = writes \cup {<<run_no, i>>}
    /\ UNCHANGED <<filings_meta, dstage, run_no, gets, returns>>
    /\ UNCHANGED <<GEMINI_CONFIGURED, downloaded_files_info, wvars, mvars, tvars, pvars,
                   avars>>

\* downloader.py 51
successful_downloads(task_results) ==
    LET Succeeded(res) == res # NoResult
    IN  SelectSeq(task_results, Succeeded)

\* downloader.py 49-53: gather has every result; the list is returned
ReturnDownloads ==
    /\ dstage = "tasks"
    /\ \A i \in DOMAIN tasks : tasks[i] \in TaskDone
    /\ dstage' = "returned"
    /\ returns' = Append(returns, [tasks |-> tasks,
                                   list |-> successful_downloads(gathered),
                                   disk |-> disk])
    /\ UNCHANGED <<filings_meta, disk, tasks, gathered, run_no, gets, writes>>
    /\ UNCHANGED <<GEMINI_CONFIGURED, downloaded_files_info, wvars, mvars, tvars, pvars,
                   avars>>

\* download_all_filings is called again on the same list
Rerun ==
    /\ dstage = "returned"
    /\ run_no = 1
    /\ run_no' = run_no + 1
    /\ dstage' = "tasks"
    /\ tasks' = [i \in DOMAIN filings_meta |-> "created"]
    /\ gathered' = [i \in DOMAIN filings_meta |-> NoResult]
    /\ UNCHANGED <<filings_meta, disk, gets, writes, returns>>
    /\ UNCHANGED <<GEMINI_CONFIGURED, downloaded_files_info, wvars, mvars, tvars, pvars,
                   avars>>

NextDownload ==
    \/ \E i \in DOMAIN tasks : StartFetch(i)
    \/ \E i \in DOMAIN tasks : FinishFetch(i)
    \/ ReturnDownloads
    \/ Rerun

SpecDownload == InitDownload /\ [][NextDownload]_vars

(***************************************************************************)
(* main and the log listener (main.py 24-38, 180-209) around the batch of  *)
(* scrape_sec_filings.                                                     *)
(***************************************************************************)
\* the most log records waiting in the queue
MaxQueued == 2

\* the variables of the batch and of its workers
bvars == <<GEMINI_CONFIGURED, downloaded_files_info, wvars, mvars, tvars, pvars, dvars>>

\* main.py 186-192: the Manager, the queue and the listener are started,
\* and scrape_sec_filings is about to be called
InitMain ==
    /\ GEMINI_CONFIGURED \in BOOLEAN
    /\ filings_meta_to_process \in SeqsUpTo(Metas, MaxFilings)
    /\ downloaded_files_info = <<>>
    /\ WorkersInit(0)
    /\ stage = "start"
    /\ results = <<>>
    /\ all_data_points = <<>>
    /\ filing_reports = <<>>
    /\ apos = 0
    /\ returned = "nothing"
    /\ TableIdle
    /\ ValueIdle
    /\ DownloadIdle
    /\ main_pc = "scrape"
    /\ manager_up = TRUE
    /\ log_queue = <<>>
    /\ listener = "running"
    /\ whoops = FALSE

\* the QueueHandler of main.py 192: a log call during the scrape puts a
\* record on the queue
LogRecord ==
    /\ main_pc = "scrape"
    /\ stage \notin {"returned", "raised"}
    /\ Len(log_queue) < MaxQueued
    /\ log_queue' = Append(log_queue, "record")
    /\ UNCHANGED <<main_pc, manager_up, listener, whoops, bvars>>

\* main.py 29-38: one pass of the listener's loop; the sentinel ends it, a
\* record is handled, and a failure of the handling is reported
ListenerGet ==
    /\ listener = "running"
    /\ manager_up
    /\ log_queue # <<>>
    /\ log_queue' = Tail(log_queue)
    /\ IF Head(log_queue) = "None"
       THEN /\ listener' = "exited"
            /\ UNCHANGED whoops
       ELSE /\ \E handled \in BOOLEAN : whoops' = (whoops \/ ~handled)
            /\ UNCHANGED listener
    /\ UNCHANGED <<main_pc, manager_up, bvars>>

\* main.py 203-208: scrape_sec_filings has returned; the result is written
\* or not, and the sentinel is put
PutSentinel ==
    /\ main_pc = "scrape"
    /\ stage = "returned"
    /\ log_queue' = Append(log_queue, "None")
    /\ main_pc' = "join"
    /\ UNCHANGED <<manager_up, listener, whoops, bvars>>

\* main.py 209 and the end of the with block of 186
JoinListener ==
    /\ main_pc = "join"
    /\ listener = "exited"
    /\ main_pc' = "exited"
    /\ manager_up' = FALSE
    /\ UNCHANGED <<log_queue, listener, whoops, bvars>>

\* main.py 194-202: scrape_sec_filings has raised; the exception leaves the
\* with block of 186, which shuts the Manager down, and main
ScrapeRaised ==
    /\ main_pc = "scrape"
    /\ stage = "raised"
    /\ main_pc' = "raised"
    /\ manager_up' = FALSE
    /\ UNCHANGED <<log_queue, listener, whoops, bvars>>

\* main.py 31, 35-38: queue.get() on the queue of a Manager that is gone
\* raises; the handler reports it and the loop goes on
ListenerGetFails ==
    /\ listener = "running"
    /\ ~manager_up
    /\ whoops' = TRUE
    /\ UNCHANGED <<main_pc, manager_up, log_queue, listener, bvars>>

NextMain ==
    \/ Download
    \/ \E f \in DOMAIN pc : ReadFile(f)
    \/ \E f \in DOMAIN pc : ExtractPeriod(f)
    \/ \E f \in DOMAIN pc : TocAttempt(f)
    \/ \E f \in DOMAIN pc : AfterLoop(f)
    \/ \E f \in DOMAIN pc : FallbackScrape(f)
    \/ \E f \in DOMAIN pc : Return(f)
    \/ Join
    \/ Aggregate
    \/ LogRecord
    \/ ListenerGet
    \/ PutSentinel
    \/ JoinListener
    \/ ScrapeRaised
    \/ ListenerGetFails

SpecMain == InitMain /\ [][NextMain]_vars

(***************************************************************************)
(* Properties.                                                             *)
(***************************************************************************)
Workers == DOMAIN pc

Filing(f) == downloaded_files_info[f]

\* the filing was read and its fiscal period resolved
Resolved(f) == Filing(f).readable /\ Filing(f).header = "phrase_date"

\* some ToC candidate of the filing parses to a non-empty index
HasIndexedCandidate(f) ==
    \E i \in 1..Len(Filing(f).tables) :
        LET t == TableKinds[Filing(f).tables[i]]
        IN  (ByHeading(t) \/ ByLinks(t)) /\ t.index # <<>>

\* the worker returned the (DataPoints, report) tuple of parser.py 430
NormalResult(f) ==
    /\ pc[f] = "done"
    /\ exc[f] = "none"
    /\ result[f] = <<file_data_points[f], status_report[f]>>

\* the worker returned no DataPoint and an all-Missing report
EmptyResult(f) == pc[f] = "done" /\ result[f] = << <<>>, InitialReport >>

\* C1: with the oracle unavailable, a filing whose period was resolved and
\* that has a ToC candidate with a non-empty index still enters the fallback
\* scan: every table the scan assigns is scraped and its statement marked,
\* and the run ends with a normal (DataPoints, report) result.
C1_OracleDownStillFallsBack ==
    \A f \in Workers :
        (pc[f] = "done" /\ ~GEMINI_CONFIGURED /\ Resolved(f) /\ HasIndexedCandidate(f))
        => /\ NormalResult(f)
           /\ calls[f].fallback = 1
           /\ LET assigned == fallback_found_statements(DocTables(f))
              IN  \A k \in 1..Len(assigned) : status_report[f][assigned[k][1]] # Missing

\* C2: a readable filing in which no fiscal period end date is found goes
\* from the start to the aborted end: no ToC locator, indexer or oracle call
\* and no fallback scan is ever made for it, and it returns no DataPoint and
\* a report in which every statement is Missing.
C2_NoPeriodAborts ==
    \A f \in Workers :
        (Filing(f).readable /\ Filing(f).header # "phrase_date")
        => /\ calls[f] = NoCalls
           /\ pc[f] \in {"start", "period", "done"}
           /\ status_report[f] = InitialReport
           /\ file_data_points[f] = <<>>
           /\ pc[f] = "done" => EmptyResult(f)

\* a filing without a period, though it has a ToC candidate with an index
\* and a table the fallback would assign, has ended
C2_Witness ==
    \E f \in Workers :
        /\ pc[f] = "done"
        /\ Filing(f).readable
        /\ Filing(f).header = "phrase_bad_date"
        /\ HasIndexedCandidate(f)
        /\ fallback_found_statements(DocTables(f)) # <<>>

\* C3: at the end of a run, the fallback scan was entered if and only if the
\* fiscal period was resolved and no ToC candidate resolved any category.
C3_FallbackIffNothingGuided ==
    \A f \in Workers :
        pc[f] = "done"
        => (calls[f].fallback > 0
            <=> (Resolved(f)
                 /\ \A s \in StatementTypes : status_report[f][s] # FoundGuided))

\* C5: with the oracle unavailable, a run whose period was resolved and that
\* ends without a successful guided scrape has attempted every ToC candidate,
\* each once, in discovery order: no candidate stops the run.
C5_EveryCandidateAttempted ==
    \A f \in Workers :
        (pc[f] = "done" /\ ~GEMINI_CONFIGURED /\ Resolved(f)
            /\ ~guided_scrape_successful[f])
        => calls[f].indexer = Len(find_all_toc_tables(DocTables(f)))

\* C6 (keys): the report holds a status for exactly the required statements
C6_ReportKeys == \A f \in Workers : DOMAIN status_report[f] = StatementTypes

\* C6 (steps): a status that has left Missing is never changed again
C6_StatusKept ==
    \A f \in Workers :
        f \in DOMAIN pc'
        => \A s \in StatementTypes :
               status_report[f][s] # Missing
               => status_report'[f][s] = status_report[f][s]

\* C6: throughout a run the report holds exactly one status for each
\* required statement, and a status that has left Missing is never set back
\* to Missing nor replaced by another status.
C6_OneStatusEachMonotonic == [](C6_ReportKeys) /\ [][C6_StatusKept]_vars

\* one statement has been marked and another is about to be
C6_Witness ==
    \E f \in Workers :
        /\ pc[f] = "scrape"
        /\ fpos[f] >= 2
        /\ fpos[f] <= Len(found_statements[f])
        /\ \E s \in StatementTypes : status_report[f][s] # Missing

\* C8: a statement whose table was identified but whose header resolves to
\* no fiscal period ends the run neither as found nor as Missing.
C8_ZeroPeriodsIdentifiedButFailed ==
    \A f \in Workers :
        NormalResult(f)
        => \A k \in 1..Len(found_statements[f]) :
               parse_table_headers(DocTables(f)[found_statements[f][k][2]]) = <<>>
               => status_report[f][found_statements[f][k][1]]
                      \notin {Missing, FoundGuided, FoundFallback}

\* C9: process_single_filing never raises: a worker always ends by returning
\* a pair, a failure while reading or processing the filing gives no
\* DataPoint and an all-Missing report, and what a worker returns depends on
\* its own filing alone.
C9_NeverRaises ==
    /\ \A f \in Workers :
           /\ pc[f] # "raised"
           /\ pc[f] = "done" => Len(result[f]) = 2
           /\ (exc[f] # "none" \/ ~Filing(f).readable) => (pc[f] = "done" => EmptyResult(f))
           /\ (exc[f] # "none") => pc[f] = "done"
    /\ \A f, g \in Workers :
           (pc[f] = "done" /\ pc[g] = "done" /\ Filing(f) = Filing(g))
           => result[f] = result[g]

\* one worker has failed on its filing while another has returned DataPoints
C9_Witness ==
    \E f, g \in Workers :
        /\ pc[f] = "done" /\ exc[f] = "TypeError"
        /\ pc[g] = "done" /\ exc[g] = "none" /\ result[g][1] # <<>>

\* C10: scrape_sec_filings aggregates the workers' results without raising,
\* and when it returns after the pool has run it holds one report per
\* downloaded filing, in input order, and all their DataPoints in order.
C10_AggregatesWithoutRaising ==
    /\ stage # "raised"
    /\ (stage = "returned" /\ downloaded_files_info # <<>>)
       => /\ Len(filing_reports) = Len(downloaded_files_info)
          /\ \A f \in Workers : filing_reports[f].statements = result[f][2]
          /\ all_data_points = Concat([f \in Workers |-> result[f][1]])

\* the table the fallback assigned to a statement, 0 for none
AssignedTable(f, s_type) ==
    IF \E k \in 1..Len(found_statements[f]) : found_statements[f][k][1] = s_type
    THEN found_statements[f][CHOOSE k \in 1..Len(found_statements[f]) :
                                 found_statements[f][k][1] = s_type][2]
    ELSE 0

\* the fallback scan of the worker has made its assignment
Assigned(f) == pc[f] \in {"scrape", "done"} /\ calls[f].fallback = 1

\* C11: in the fallback assignment no table is assigned to more than one
\* statement, and no statement has more than one table.
C11_NoTableAssignedTwice ==
    \A f \in Workers :
        \A j, k \in 1..Len(found_statements[f]) :
            j # k => /\ found_statements[f][j][2] # found_statements[f][k][2]
                     /\ found_statements[f][j][1] # found_statements[f][k][1]

\* a table that scores above the threshold for two statements was assigned
\* to the first of them, and the run has ended
C11_Witness ==
    \E f \in Workers :
        /\ pc[f] = "done" /\ calls[f].fallback = 1
        /\ \E t \in 1..Len(DocTables(f)) :
               /\ AssignedTable(f, "INCOME_STATEMENT") = t
               /\ DocTables(f)[t].hits["BALANCE_SHEET_STATEMENT"] > AssignThreshold
               /\ \A u \in 1..Len(DocTables(f)) :
                      DocTables(f)[u].hits["BALANCE_SHEET_STATEMENT"]
                          <= DocTables(f)[t].hits["BALANCE_SHEET_STATEMENT"]

\* the candidate tables of the fallback: not excluded for a percentage and
\* with some score above 5
C12_Pool(f) == {t \in 1..Len(DocTables(f)) : IsScored(DocTables(f)[t])}

\* the tables assigned to the statements that come before the i-th
C12_ClaimedBefore(f, i) ==
    {AssignedTable(f, required_statements[j]) : j \in 1..(i - 1)} \ {0}

\* the unclaimed candidates of the highest score for the i-th statement
C12_Best(f, i) ==
    LET U == C12_Pool(f) \ C12_ClaimedBefore(f, i)
        s == required_statements[i]
    IN  {t \in U : \A u \in U : DocTables(f)[u].hits[s] <= DocTables(f)[t].hits[s]}

\* C12: for each statement, in the order of the terms dictionary, the
\* fallback assigns the unclaimed candidate table of the highest score for
\* it if that score exceeds 10, the earliest in document order among equal
\* scores; otherwise the statement gets no table and stays Missing.
C12_GreedyAssignment ==
    \A f \in Workers :
        Assigned(f)
        => \A i \in 1..Len(required_statements) :
               LET s == required_statements[i]
                   best == C12_Best(f, i)
               IN  IF best # {} /\ (\E t \in best : DocTables(f)[t].hits[s] > AssignThreshold)
                   THEN /\ AssignedTable(f, s) \in best
                        /\ \A t \in best : AssignedTable(f, s) <= t
                   ELSE /\ AssignedTable(f, s) = 0
                        /\ status_report[f][s] = Missing

\* two unclaimed candidates tied on the highest score for a statement, the
\* earlier one was assigned, and another statement stayed Missing
C12_Witness ==
    \E f \in Workers :
        /\ pc[f] = "done" /\ calls[f].fallback = 1
        /\ \E i \in 1..Len(required_statements) :
               /\ Cardinality(C12_Best(f, i)) >= 2
               /\ AssignedTable(f, required_statements[i]) \in C12_Best(f, i)
        /\ \E s \in StatementTypes : status_report[f][s] = Missing
        /\ \E s \in StatementTypes : status_report[f][s] = FoundFallback

\* the loop over the rows of the scraped table is at a row
AtRow == tpc = "rows" /\ row <= Len(scraped_table.rows)

\* the cells, the label and the tokens of that row
CurrentCells == scraped_table.rows[row]

CurrentLabel == metric_name_of(CurrentCells)

CurrentTokens == value_strings_of(CurrentCells)

\* the DataPoints a step appends
NewPoints == SubSeq(all_data_points', Len(all_data_points) + 1, Len(all_data_points'))

\* C13 (step): a step on a row whose number of tokens differs from the
\* number of periods appends nothing and moves to the next row
C13_Step ==
    (AtRow /\ Len(CurrentTokens) # Len(fiscal_periods))
    => /\ all_data_points' = all_data_points
       /\ row' = row + 1
       /\ tpc' = "rows"

\* C13: a row whose number of extracted tokens differs from the table's
\* number of resolved periods emits no DataPoint, and the scrape goes on
\* with the next row.
C13_MismatchedRowEmitsNothing == [][C13_Step]_vars

\* a table of two periods whose first row has one token and whose second
\* row has two has been scraped: only the second row gave DataPoints
C13_Witness ==
    /\ tpc = "done"
    /\ scraped_table.rows = <<R_Header2, R_Cash1, R_Cash2>>
    /\ Len(all_data_points) = 2
    /\ \A k \in 1..2 : all_data_points[k].metric = T_Cash

\* the loop is at a labelled row with as many tokens as there are periods
C14_Matching ==
    /\ AtRow
    /\ ~RowSkipped(CurrentCells)
    /\ CurrentTokens # <<>>
    /\ Len(CurrentTokens) = Len(fiscal_periods)

\* C14 as stated (step): such a row appends exactly one DataPoint per token,
\* the i-th carrying the i-th period
C14_StatedStep ==
    C14_Matching
    => /\ Len(NewPoints) = Len(fiscal_periods)
       /\ \A i \in 1..Len(fiscal_periods) : NewPoints[i].fiscal_period = fiscal_periods[i]

\* C14 as stated: a row whose token count equals the period count N emits
\* exactly N DataPoints, one per token in column order, the DataPoint of
\* token i carrying the i-th period.
C14_ExactlyOnePointPerToken == [][C14_StatedStep]_vars

\* the positions from i on of the tokens that parse to a value
RECURSIVE C14_Parsed(_, _)
C14_Parsed(tokens, i) ==
    IF i > Len(tokens) THEN <<>>
    ELSE (IF parse_financial_value(tokens[i]) # None THEN <<i>> ELSE <<>>)
         \o C14_Parsed(tokens, i + 1)

\* C14 amended (step): such a row appends one DataPoint per token that
\* parses to a value, in column order, each with the period and the value
\* of its token's position
C14_AmendedStep ==
    C14_Matching
    => LET kept == C14_Parsed(CurrentTokens, 1)
       IN  /\ Len(NewPoints) = Len(kept)
           /\ Len(NewPoints) <= Len(fiscal_periods)
           /\ \A k \in 1..Len(kept) :
                  /\ NewPoints[k].fiscal_period = fiscal_periods[kept[k]]
                  /\ NewPoints[k].value = parse_financial_value(CurrentTokens[kept[k]])[1]
                  /\ NewPoints[k].metric = CurrentLabel

\* C14 amended (states): every DataPoint of the table carries one of the
\* periods resolved for the table
C14_PeriodsOfTable ==
    tpc \in {"rows", "done"}
    => \A k \in 1..Len(all_data_points) :
           \E i \in 1..Len(fiscal_periods) :
               all_data_points[k].fiscal_period = fiscal_periods[i]

\* C14 amended: a row whose token count equals the period count N emits one
\* DataPoint per token that parses to a value (at most N), in column order,
\* the DataPoint of token i carrying the i-th period; every DataPoint's
\* fiscal_period is one of the periods resolved for its table.
C14_OnePointPerParsedToken == [](C14_PeriodsOfTable) /\ [][C14_AmendedStep]_vars

\* a row of two tokens, the second of which is no number, gave one
\* DataPoint, of the first period, and the next row gave two
C14_Witness ==
    /\ tpc = "done"
    /\ scraped_table.rows = <<R_Header2, R_Range2, R_Cash2>>
    /\ Len(all_data_points) = 3
    /\ all_data_points[1].metric = T_Debt
    /\ all_data_points[1].fiscal_period = 2024
    /\ all_data_points[2].fiscal_period = 2024
    /\ all_data_points[3].fiscal_period = 2023
    /\ all_data_points[3].value = 0 - 700

\* the leading rows parse_table_headers scans that hold a date or a year
C18_YearRows ==
    {r \in 1..Len(scraped_table.rows) :
        r <= HeaderRowLimit /\ FindYears(RowText(scraped_table.rows[r])) # <<>>}

\* C18: the periods resolved for a table are the years of the first scanned
\* row that holds a date or a year, each year once and in descending order,
\* and the empty sequence when no scanned row holds one.
C18_HeaderYearsDeduplicated ==
    tpc \in {"rows", "done"}
    => /\ \A i, j \in 1..Len(fiscal_periods) :
              i < j => fiscal_periods[i] > fiscal_periods[j]
       /\ IF C18_YearRows = {}
          THEN fiscal_periods = <<>>
          ELSE LET r == CHOOSE q \in C18_YearRows : \A o \in C18_YearRows : q <= o
                   years == FindYears(RowText(scraped_table.rows[r]))
               IN  {fiscal_periods[i] : i \in 1..Len(fiscal_periods)}
                       = {years[i] : i \in 1..Len(years)}

\* the loop is at a row the claim calls a category header: its label is a
\* number, or it has a label and its other cells hold no token
C20_StatedHeaderRow ==
    /\ AtRow
    /\ CurrentCells # <<>>
    /\ \/ IsDigit(CurrentLabel)
       \/ CurrentLabel # <<>> /\ CurrentTokens = <<>>

\* C20 as stated (step)
C20_StatedStep ==
    C20_StatedHeaderRow
    => /\ all_data_points' = all_data_points
       /\ current_category' = CurrentLabel

\* C20 as stated: a row whose label is purely numeric, or whose remaining
\* cells contain no numeric token, emits no DataPoint and its label becomes
\* the current category of the following rows.
C20_NumericOrTokenlessRowIsHeader == [][C20_StatedStep]_vars

\* C20 amended (step)
C20_AmendedStep ==
    AtRow
    => /\ (CurrentLabel # <<>> /\ ~IsDigit(CurrentLabel) /\ CurrentTokens = <<>>)
          => /\ all_data_points' = all_data_points
             /\ current_category' = CurrentLabel
       /\ (CurrentCells = <<>> \/ CurrentLabel = <<>> \/ IsDigit(CurrentLabel))
          => /\ all_data_points' = all_data_points
             /\ current_category' = current_category
       /\ (CurrentLabel # <<>> /\ ~IsDigit(CurrentLabel) /\ CurrentTokens # <<>>)
          => /\ current_category' = current_category
             /\ \A k \in 1..Len(NewPoints) : NewPoints[k].category = current_category

\* C20 amended: a row with a label that is not purely numeric and whose
\* remaining cells contain no numeric token emits no DataPoint and its label
\* becomes the current category, attached to the DataPoints of the following
\* rows until another such row overwrites it; a row whose label is empty or
\* purely numeric emits no DataPoint and leaves the current category as it
\* is.
C20_LabelledTokenlessRowIsHeader == [][C20_AmendedStep]_vars

\* after a heading and a row with a numeric label, a data row gave two
\* DataPoints under the heading
C20_Witness ==
    /\ tpc = "done"
    /\ scraped_table.rows = <<R_Header2, R_Debt0, R_Num2, R_Cash2>>
    /\ Len(all_data_points) = 2
    /\ \A k \in 1..2 : all_data_points[k].category = T_Debt
    /\ current_category = T_Debt

\* the cell string without surrounding blanks, currency symbols and
\* thousands separators
C17_Cleaned(s) == Remove(Strip(s), {"$", ","})

\* the text between the parentheses of a parenthesized text
C17_Enclosed(t) == Strip(SubSeq(t, 2, Len(t) - 1))

C17_Parenthesized(t) == Len(t) >= 2 /\ Head(t) = "(" /\ Last(t) = ")"

\* the reference normalizer: a lone dash is zero, a parenthesized number is
\* the negative of the number enclosed, any other text is the number it
\* spells, and text that spells no number has no value
C17_Reference(s) ==
    LET t == C17_Cleaned(s)
    IN  IF t = <<>> THEN None
        ELSE IF t \in {<<EmDash>>, <<"-">>} THEN Some(0)
        ELSE IF C17_Parenthesized(t)
        THEN LET v == Float(C17_Enclosed(t))
             IN  IF v = None THEN None ELSE Some(0 - v[1])
        ELSE Float(t)

\* a parenthesized number that has a sign of its own: the reference does not
\* say which sign the result has
C17_SignedInParentheses(s) ==
    LET t == C17_Cleaned(s)
    IN  /\ C17_Parenthesized(t)
        /\ C17_Enclosed(t) # <<>>
        /\ Head(C17_Enclosed(t)) \in {"-", "+"}
        /\ Float(C17_Enclosed(t)) # None

\* C17: parse_financial_value returns what the reference normalizer gives
\* for every cell string: 0.0 for a lone dash or em dash, no value for empty
\* or non-numeric text, the negative of the enclosed number for a
\* parenthesized number, currency symbols and thousands separators ignored.
C17_AgreesWithReference ==
    (vpc = "returned" /\ ~C17_SignedInParentheses(value_str))
    => value = C17_Reference(value_str)

\* the filings of the list whose task ended in one of the given ways, each as
\* the pair fetch_and_save returns for it, in input order
C15_PairsOf(task_states, ways) ==
    LET Chosen(i) == task_states[i] \in ways
        chosen == SelectSeq([i \in DOMAIN task_states |-> i], Chosen)
    IN  [k \in DOMAIN chosen |->
            <<filepath_of(filings_meta[chosen[k]]), filings_meta[chosen[k]]>>]

\* C15: a fetch that fails (HTTP error, timeout, write error, missing url)
\* gives no result for its own filing only, and the list download_all_filings
\* returns holds exactly the filings that were fetched and saved or found in
\* the cache, in input order.
C15_FailuresAreIsolated ==
    /\ \A i \in DOMAIN tasks :
         tasks[i] \in TaskDone =>
           gathered[i] = IF tasks[i] \in {"cached", "saved"}
                         THEN <<filepath_of(filings_meta[i]), filings_meta[i]>>
                         ELSE NoResult
    /\ dstage = "returned" =>
         Last(returns).list = C15_PairsOf(tasks, {"cached", "saved"})

\* a call has returned in which the first fetch failed and the second was
\* saved and is the only filing handed on
C15_Witness ==
    /\ dstage = "returned"
    /\ Len(tasks) = 2
    /\ tasks[1] \in {"failed_http", "failed_timeout", "failed_write"}
    /\ tasks[2] = "saved"
    /\ Len(Last(returns).list) = 1
    /\ Last(returns).list[1][2] = filings_meta[2]

\* the first call handed on the filing at position i
C16_HandedOn(i) == returns[1].tasks[i] \in {"cached", "saved"}

\* C16: when download_all_filings is called again on the same list, a filing
\* the first call handed on is neither fetched nor written again and its
\* file keeps its content; when the first call handed on every filing that
\* has a url, the second call returns the same list.
C16_RerunUsesTheCache ==
    run_no = 2 =>
      /\ \A i \in DOMAIN filings_meta :
           C16_HandedOn(i) =>
             /\ <<2, i>> \notin gets
             /\ <<2, i>> \notin writes
             /\ disk[filepath_of(filings_meta[i])] = returns[1].disk[filepath_of(filings_meta[i])]
      /\ (dstage = "returned"
          /\ \A i \in DOMAIN filings_meta : filings_meta[i].url # "" => C16_HandedOn(i))
         => returns[2].list = returns[1].list

\* the second call has returned after a first call that fetched and saved a
\* file; it handed the same filing on from the cache
C16_Witness ==
    /\ run_no = 2
    /\ dstage = "returned"
    /\ \E i \in DOMAIN filings_meta : returns[1].tasks[i] = "saved" /\ tasks[i] = "cached"
    /\ \A i \in DOMAIN filings_meta : filings_meta[i].url # "" => C16_HandedOn(i)
    /\ returns[2].list # <<>>

\* the row at position r has no text at all
C21_Blank(cells) == \A k \in DOMAIN cells : Strip(cells[k]) = <<>>

RECURSIVE C21_HeadingBefore(_, _)
\* the label of the last row before position r that has a label which is
\* not a number and has no numeric token; empty when there is none
C21_HeadingBefore(rows, r) ==
    IF r <= 1 THEN <<>>
    ELSE LET cells == rows[r - 1]
         IN  IF /\ cells # <<>>
                /\ metric_name_of(cells) # <<>>
                /\ ~IsDigit(metric_name_of(cells))
                /\ value_strings_of(cells) = <<>>
             THEN metric_name_of(cells)
             ELSE C21_HeadingBefore(rows, r - 1)

\* C21 (step): a blank row appends nothing and leaves the category as it
\* is, and every DataPoint carries the heading of its own table that
\* precedes its row, the empty category when the table has none before it
C21_Step ==
    /\ (AtRow /\ C21_Blank(CurrentCells))
       => (NewPoints = <<>> /\ current_category' = current_category)
    /\ AtRow
       => \A k \in DOMAIN NewPoints :
            NewPoints[k].category = C21_HeadingBefore(scraped_table.rows, row)

\* C21: a blank row emits no DataPoint and does not reset the current
\* category, so that the DataPoints before and after blank rows carry the
\* same category; the category starts empty with every table and is never
\* carried over from the table before.
C21_BlankRowsKeepCategory == [][C21_Step]_vars

\* the first table has a heading, a blank row and a data row and gave
\* DataPoints under the heading; a later table with a blank row and no
\* heading gave DataPoints with the empty category
C21_Witness ==
    /\ tpc = "done"
    /\ Len(scraped_tables) = 3
    /\ table_pos = 3
    /\ scraped_tables[1].rows = <<R_Header2, R_Debt0, R_Blank, R_Cash2>>
    /\ Len(all_data_points) = 4
    /\ all_data_points[2].category = T_Debt
    /\ all_data_points[3].category = <<>>

\* the fetches in flight: session.get was called and fetch_and_save has not
\* returned
C22_InFlight == {i \in DOMAIN tasks : tasks[i] = "get"}

C23_FoundStatementsHaveData ==
    \A f \in Workers :
        pc[f] = "done"
        => \A s_type \in StatementTypes :
               result[f][2][s_type] # Missing
               => \E k \in 1..Len(result[f][1]) :
                      result[f][1][k].table_description = TableDescription(s_type)

\* the sentinel is on the queue or the listener has taken it
C25_SentinelEnqueued ==
    listener = "exited" \/ \E k \in DOMAIN log_queue : log_queue[k] = "None"

\* C25: whatever the outcome of scrape_sec_filings, once main is past the
\* scrape the None sentinel has been enqueued, so that the listener's loop
\* can end and listener.join() return; and the listener does not end before
\* it has taken the sentinel, whatever happened while handling a record.
C25_ListenerGetsSentinel ==
    /\ main_pc \in {"join", "exited", "raised"} => C25_SentinelEnqueued
    /\ (listener = "exited") => main_pc \in {"join", "exited"}

====
